---- MODULE Spec2Model ----
(***************************************************************************)
(* Ref2NerfField (nerfstudio/fields/ref2nerf_field.py): the two-pass       *)
(* forward evaluation of the field.                                        *)
(*                                                                         *)
(* Numbers.  Tensors of shape [rays, samples, ...] are functions           *)
(* [Rays -> [Samples -> ...]].  Reals are fixed-point integers: a weight,  *)
(* an alpha, a transmittance or a colour v stands for v / SCALE, and a     *)
(* position is counted in units of 1 / SCALE of the offset unit, so that   *)
(* weight * offset is an exact position displacement.  The code treats the *)
(* three coordinates of a position alike (every operation on them is       *)
(* elementwise), so one coordinate is modelled; a feature vector is one    *)
(* number, and its width is tracked separately.                            *)
(***************************************************************************)
EXTENDS Integers, Sequences, FiniteSets, TLC

\* ---------------------------------------------------------------- bounds
NumRays == 2
NumSamples == 3
MaxCalls == 2
Precision == 2

\* ------------------------------------------------------ program constants
geo_feat_dim == 64
feature_dim == 64
sh_levels == 4
default_appearance_embedding_dim == 32
num_color_channels == 3
average_init_density == 1
position_in_dim == 3
num_frequencies == 10

Rays == 1..NumRays
Samples == 1..NumSamples
Channels == 1..num_color_channels

RECURSIVE Pow2(_)
Pow2(n) == IF n <= 0 THEN 1 ELSE 2 * Pow2(n - 1)

SCALE == Pow2(Precision)

\* Python's None; a tensor is a non-empty tuple over Rays, so the empty tuple
\* is distinct from every tensor.
None == << >>

Abs(x) == IF x < 0 THEN -x ELSE x
Min(a, b) == IF a < b THEN a ELSE b

\* ------------------------------------------------- collaborators (library)

\* SHEncoding(levels=4).get_out_dim()
DirectionOutDim == sh_levels * sh_levels

\* Frustums.get_positions(): origins + directions * (starts + ends) / 2, plus
\* the offsets when set_offsets has attached some.
GetPositions(b) ==
    [r \in DOMAIN b.origins |-> [s \in DOMAIN b.starts[r] |->
        b.origins[r] + b.directions[r] * ((b.starts[r][s] + b.ends[r][s]) \div 2)
        + (IF b.offsets = None THEN 0 ELSE b.offsets[r][s])]]

\* The world unit 1.0 in position units.
Unit == SCALE

\* SceneBox.get_normalized_positions(positions, aabb) for the box
\* aabb = [-2, 2]: (p - aabb[0]) / (aabb[1] - aabb[0]), in units of
\* 1 / (4 * Unit).
BoxNormalize(p) == p + 2 * Unit

\* SpatialDistortion (scene contraction): x inside the unit ball, else
\* (2 - 1/|x|) * x/|x|, truncated to the position grid.
Contract(p) ==
    IF Abs(p) <= Unit THEN p
    ELSE (IF p < 0 THEN -1 ELSE 1) * ((2 * Unit * Abs(p) - Unit * Unit) \div Abs(p))

\* NeRFEncoding(include_input=True): a pure function of the normalized
\* position that contains its input.
PositionEncoding(n) == n

\* get_normalized_directions followed by SHEncoding: a pure function of the
\* ray direction.
DirectionEncoding(dir) == (dir + 1) \div 2

\* NeRFEncoding(in_dim=3, num_frequencies=10, include_input=True).get_out_dim()
PositionOutDim == position_in_dim * num_frequencies * 2 + position_in_dim

\* trunc_exp: exp(x), on the density grid (exp(x) < 1 rounds to 0, and the
\* result saturates at the largest representable density).
TruncExp(x) == IF x < 0 THEN 0 ELSE Pow2(Min(x, Precision + 1))

\* torch.sigmoid on the colour grid: values in 0..SCALE, i.e. [0, 1].
Sigmoid(x) ==
    IF 2 * x <= -SCALE THEN 0
    ELSE IF 2 * x >= SCALE THEN SCALE
    ELSE (SCALE \div 2) + x

\* exp(-x) for x >= 0 on the weight grid: SCALE * 2^(-x), 0 below the grid.
ExpNeg(x) == IF x > Precision THEN 0 ELSE Pow2(Precision - x)

RECURSIVE SumTo(_, _)
\* sum of f[1..n]
SumTo(f, n) == IF n = 0 THEN 0 ELSE SumTo(f, n - 1) + f[n]

\* RaySamples.get_weights(densities): alphas = 1 - exp(-deltas * densities),
\* transmittance = exp(-cumsum of the earlier deltas * densities),
\* weights = alphas * transmittance, along each ray.
GetWeights(densities, deltas) ==
    [r \in DOMAIN densities |->
        LET dd == [s \in DOMAIN densities[r] |-> deltas[r][s] * densities[r][s]]
        IN  [s \in DOMAIN densities[r] |->
                ((SCALE - ExpNeg(dd[s])) * ExpNeg(SumTo(dd, s - 1))) \div SCALE]]

\* RaySamples.get_weights_and_transmittance-style fused weights: the alphas of
\* one density under the transmittance of another.
GetWeightsFused(trans_density, densities, deltas) ==
    [r \in DOMAIN densities |->
        LET dd == [s \in DOMAIN densities[r] |-> deltas[r][s] * densities[r][s]]
            td == [s \in DOMAIN densities[r] |-> deltas[r][s] * trans_density[r][s]]
        IN  [s \in DOMAIN densities[r] |->
                ((SCALE - ExpNeg(dd[s])) * ExpNeg(SumTo(td, s - 1))) \div SCALE]]

\* ------------------------------------------------------ learned parameters

\* The weights of the six MLPs.  Each trunk is a fixed function of its input
\* for given weights; the weights are drawn from a small family.
BaseCenters == {2 * Unit - 2, 2 * Unit + 3}
BaseHeights == {1, 2}
OffsetGains == {-1, 0, 1}
IndependentCenters == {2 * Unit + 2, 2 * Unit + 4}

Thetas ==
    [base_c : BaseCenters, base_h : BaseHeights, off_w : OffsetGains,
     ind_c : IndependentCenters]

\* mlp_base: out_dim = 1 + geo_feat_dim, no output activation.
MlpBase(th, e) ==
    [density_before_activation |-> th.base_h - Abs(e - th.base_c),
     base_mlp_out |-> e - th.base_c]

\* mlp_offset: out_dim = 3, no output activation.
MlpOffset(th, d, geo) == th.off_w * (geo + d)

\* mlp_base_independent: out_dim = 1 + 3 + geo_feat_dim, no output activation.
MlpBaseIndependent(th, e) ==
    [density_vi |-> 1 - Abs(e - th.ind_c),
     color_vi |-> [c \in Channels |-> e - th.ind_c + c - 2],
     base_mlp_out |-> e - th.ind_c]

\* mlp_head: out_dim = 1 + feature_dim, no output activation.
MlpHead(th, d, geo) ==
    [density_vd |-> 1 - Abs(geo) + d, color_vd |-> geo + 2 * d + 1]

\* mlp_decoder: out_dim = 3, out_activation = Sigmoid.
MlpDecoder(th, f) == [c \in Channels |-> Sigmoid(f + c - 2)]

\* mlp_gate: out_dim = 1, no output activation.
MlpGate(th, f) == th.off_w * f - 1

\* The in_dim mlp_head and mlp_offset are constructed with.
HeadInDim(cfg) == DirectionOutDim + geo_feat_dim + cfg.appearance_embedding_dim
OffsetInDim(cfg) == DirectionOutDim + geo_feat_dim + cfg.appearance_embedding_dim

\* Widths of the blocks forward concatenates (torch.cat along the last axis).
PartWidth(part) ==
    CASE part = "d" -> DirectionOutDim
      [] part = "density_embedding" -> geo_feat_dim
      [] part = "base_mlp_out" -> geo_feat_dim
      [] part = "encode_xyz" -> PositionOutDim
      [] part = "feature_map" -> feature_dim
      [] OTHER -> 0

RECURSIVE CatWidth(_)
CatWidth(parts) ==
    IF parts = << >> THEN 0 ELSE PartWidth(Head(parts)) + CatWidth(Tail(parts))

\* The blocks of h_offset, of h_vd and of get_outputs' h.
HOffsetParts == << "d", "density_embedding" >>
HVdParts == << "d", "base_mlp_out" >>
HOutputsParts == << "d", "density_embedding" >>

\* ------------------------------------------------------------------ state

VARIABLES
    config,                     \* constructor arguments kept on the field (lines 110-123)
    theta,                      \* the learned parameters (the MLPs of lines 138-225)
    ray_samples,                \* the caller's RaySamples object (forward's argument)
    sample_locations,           \* self._sample_locations (line 241)
    density_before_activation,  \* self._density_before_activation (line 250)
    density_ret,                \* what the last get_density call returned (line 257)
    outputs_ret,                \* what the last get_outputs call returned (line 284)
    pc,                         \* position inside forward
    locals,                     \* forward's local variables, and which trunks and
                                \* normalizations it has used so far
    field_outputs,              \* what the last forward call returned (line 379)
    raised,                     \* the exception the last call ended with
    entry_samples,              \* ray_samples as the last forward call received it
    results                     \* what each forward call on ray_samples ended with

vars ==
    << config, theta, ray_samples, sample_locations, density_before_activation,
       density_ret, outputs_ret, pc, locals, field_outputs, raised,
       entry_samples, results >>

BinWidths == {1, 2}
Origins == {0}

\* RaySamples as a uniform sampler hands them over: per ray an origin and a
\* direction, bins of one width, no offsets yet.
Batches ==
    { [origins |-> o, directions |-> dir,
       starts |-> [r \in Rays |-> [s \in Samples |-> 2 * w * (s - 1)]],
       ends |-> [r \in Rays |-> [s \in Samples |-> 2 * w * s]],
       deltas |-> [r \in Rays |-> [s \in Samples |-> w]],
       camera_indices |-> ci,
       offsets |-> None] :
      o \in [Rays -> Origins], dir \in [Rays -> {-1, 1}],
      w \in BinWidths, ci \in {None, << 0 >>} }

Configs ==
    [appearance_embedding_dim : {0, default_appearance_embedding_dim},
     spatial_distortion : BOOLEAN]

EmptyLocals ==
    [density |-> None, density_embedding |-> None, weight |-> None,
     offset |-> None, delta_x |-> None, positions |-> None,
     density_vi |-> None, color_vi |-> None, base_mlp_out |-> None,
     density_vd |-> None, color_vd |-> None,
     weight_vi |-> None, rgb_vi |-> None, weight_vd |-> None,
     feature_map |-> None, rgb_vd |-> None, alpha |-> None, rgb |-> None,
     norm_log |-> << >>, trunk_calls |-> << >>]

\* ------------------------------------------------------------ get_density

\* The normalization get_density applies: the spatial distortion followed by
\* (positions + 2) / 4 when one is configured, the scene box otherwise.
DensityNormalize(cfg, p) ==
    IF cfg.spatial_distortion THEN Contract(p) + 2 * Unit ELSE BoxNormalize(p)

DensityStrategy(cfg) == IF cfg.spatial_distortion THEN "spatial_distortion" ELSE "aabb"

\* get_density: the normalized positions it stores on the field, the raw
\* density it stores on the field, and the pair it returns.
GetDensity(th, cfg, b) ==
    LET pos == GetPositions(b)
        positions == [r \in DOMAIN pos |-> [s \in DOMAIN pos[r] |->
                         DensityNormalize(cfg, pos[r][s])]]
        h == [r \in DOMAIN pos |-> [s \in DOMAIN pos[r] |->
                 MlpBase(th, PositionEncoding(positions[r][s]))]]
    IN  [sample_locations |-> positions,
         density_before_activation |->
             [r \in DOMAIN pos |-> [s \in DOMAIN pos[r] |->
                 h[r][s].density_before_activation]],
         density |->
             [r \in DOMAIN pos |-> [s \in DOMAIN pos[r] |->
                 average_init_density * TruncExp(h[r][s].density_before_activation)]],
         base_mlp_out |->
             [r \in DOMAIN pos |-> [s \in DOMAIN pos[r] |-> h[r][s].base_mlp_out]]]

\* ---------------------------------------------------------------- forward

Mul(a, b) == [r \in DOMAIN a |-> [s \in DOMAIN a[r] |-> a[r][s] * b[r][s]]]

\* A cumulative sum over the whole flattened tensor: what torch.cumsum does on
\* a view(-1, 3) of the samples.
CumSumFlat(t) ==
    [r \in DOMAIN t |-> [s \in DOMAIN t[r] |->
        SumTo([q \in 1..(r - 1) |-> SumTo(t[q], Len(t[q]))], r - 1) + SumTo(t[r], s)]]

\* A cumulative sum that runs from the far end of the ray.
CumSumReverse(t) ==
    [r \in DOMAIN t |-> [s \in DOMAIN t[r] |->
        SumTo(t[r], Len(t[r])) - SumTo(t[r], s - 1)]]

\* torch.cumsum(t, dim=-2): along the samples of each ray.
CumSum(t) == [r \in DOMAIN t |-> [s \in DOMAIN t[r] |-> SumTo(t[r], s)]]

\* torch.sum(t, dim=-2) of a [rays, samples] tensor.
SumSamples(t) == [r \in DOMAIN t |-> SumTo(t[r], Len(t[r]))]

TrunkCall(trunk, parts, in_dim) ==
    [trunk |-> trunk, parts |-> parts, width |-> CatWidth(parts), in_dim |-> in_dim]

\* Lines 293-294: the first pass and its weights.
StepFirstPass(th, cfg, b) ==
    LET g == GetDensity(th, cfg, b)
    IN  [EmptyLocals EXCEPT
            !.density = g.density,
            !.density_embedding = g.base_mlp_out,
            !.weight = GetWeights(g.density, b.deltas),
            !.norm_log = << DensityStrategy(cfg) >>,
            !.trunk_calls = << TrunkCall("mlp_base", << "encode_xyz" >>, PositionOutDim) >>]

\* Lines 296-311: the raw offset of every sample.
Offset(th, b, density_embedding) ==
    [r \in DOMAIN density_embedding |-> [s \in DOMAIN density_embedding[r] |->
        MlpOffset(th, DirectionEncoding(b.directions[r]), density_embedding[r][s])]]

\* Line 312.
DeltaX(weight, offset) == CumSum(Mul(weight, offset))

\* Lines 296-312.
StepWarp(th, cfg, b, fr) ==
    LET offset == Offset(th, b, fr.density_embedding)
    IN  [fr EXCEPT
            !.offset = offset,
            !.delta_x = DeltaX(fr.weight, offset),
            !.trunk_calls = Append(@, TrunkCall("mlp_offset", HOffsetParts, OffsetInDim(cfg)))]

\* Line 314: Frustums.set_offsets stores the tensor on the frustums.
SetOffsets(b, delta_x) == [b EXCEPT !.offsets = delta_x]

\* Lines 315-334, on the samples with the offsets attached.
StepIndependent(th, cfg, b, fr) ==
    LET pos == GetPositions(b)
        positions == [r \in DOMAIN pos |-> [s \in DOMAIN pos[r] |-> BoxNormalize(pos[r][s])]]
        h == [r \in DOMAIN pos |-> [s \in DOMAIN pos[r] |->
                 MlpBaseIndependent(th, PositionEncoding(positions[r][s]))]]
    IN  [fr EXCEPT
            !.positions = positions,
            !.density_vi = [r \in DOMAIN pos |-> [s \in DOMAIN pos[r] |->
                               average_init_density * TruncExp(h[r][s].density_vi)]],
            !.color_vi = [r \in DOMAIN pos |-> [s \in DOMAIN pos[r] |-> h[r][s].color_vi]],
            !.base_mlp_out = [r \in DOMAIN pos |-> [s \in DOMAIN pos[r] |-> h[r][s].base_mlp_out]],
            !.norm_log = Append(@, "aabb"),
            !.trunk_calls = Append(@, TrunkCall("mlp_base_independent", << "encode_xyz" >>,
                                                PositionOutDim))]

\* Lines 337-346.
StepDirectional(th, cfg, b, fr) ==
    LET geo == fr.base_mlp_out
        h == [r \in DOMAIN geo |-> [s \in DOMAIN geo[r] |->
                 MlpHead(th, DirectionEncoding(b.directions[r]), geo[r][s])]]
    IN  [fr EXCEPT
            !.density_vd = [r \in DOMAIN geo |-> [s \in DOMAIN geo[r] |->
                               average_init_density * TruncExp(h[r][s].density_vd)]],
            !.color_vd = [r \in DOMAIN geo |-> [s \in DOMAIN geo[r] |-> h[r][s].color_vd]],
            !.trunk_calls = Append(@, TrunkCall("mlp_head", HVdParts, HeadInDim(cfg)))]

\* Line 351.
WeightVi(fr, deltas) == GetWeights(fr.density_vi, deltas)

\* The view-dependent alphas under the first-pass transmittance.
WeightVdFused(fr, deltas) == GetWeightsFused(fr.density, fr.density_vd, deltas)

\* Line 357.
WeightVd(fr, deltas) == GetWeights(fr.density_vd, deltas)

\* The colour logits left as they are.
ColorViRaw(logits) == logits

\* Line 352: torch.sigmoid(color_vi).
ColorVi(logits) ==
    [r \in DOMAIN logits |-> [s \in DOMAIN logits[r] |->
        [c \in Channels |-> Sigmoid(logits[r][s][c])]]]

\* Line 353: torch.sum(weight_vi * color_vi, dim=-2).
RgbVi(weight_vi, color_vi) ==
    [r \in DOMAIN weight_vi |-> [c \in Channels |->
        SumTo([s \in DOMAIN weight_vi[r] |-> weight_vi[r][s] * color_vi[r][s][c]],
              Len(weight_vi[r]))]]

\* Line 359: torch.sum(weight_vd * color_vd, dim=-2).
FeatureMap(weight_vd, color_vd) == SumSamples(Mul(weight_vd, color_vd))

\* Lines 350-361.
StepComposite(th, cfg, b, fr) ==
    LET weight_vi == WeightVi(fr, b.deltas)
        color_vi == ColorVi(fr.color_vi)
        weight_vd == WeightVd(fr, b.deltas)
        feature_map == FeatureMap(weight_vd, fr.color_vd)
    IN  [fr EXCEPT
            !.weight_vi = weight_vi,
            !.color_vi = color_vi,
            !.rgb_vi = RgbVi(weight_vi, color_vi),
            !.weight_vd = weight_vd,
            !.feature_map = feature_map,
            !.rgb_vd = [r \in DOMAIN feature_map |-> MlpDecoder(th, feature_map[r])],
            !.trunk_calls = Append(@, TrunkCall("mlp_decoder", << "feature_map" >>, feature_dim))]

\* Lines 365-366: rgb = alpha * rgb_vd + rgb_vi, not clamped.  rgb_vd counts
\* 1 / SCALE and rgb_vi counts 1 / SCALE^2; rgb counts 1 / SCALE^2.
StepBlend(th, cfg, b, fr) ==
    LET alpha == [r \in DOMAIN fr.feature_map |-> MlpGate(th, fr.feature_map[r])]
    IN  [fr EXCEPT
            !.alpha = alpha,
            !.rgb = [r \in DOMAIN alpha |-> [c \in Channels |->
                        alpha[r] * fr.rgb_vd[r][c] * SCALE + fr.rgb_vi[r][c]]],
            !.trunk_calls = Append(@, TrunkCall("mlp_gate", << "feature_map" >>, feature_dim))]

\* Lines 370-379: the dictionary forward returns.
FieldOutputs(fr) ==
    [SH |-> fr.delta_x, DENSITY |-> fr.density_vi, RGB |-> fr.rgb,
     VI_RGB |-> fr.rgb_vi, VD_RGB |-> fr.rgb_vd]

\* forward on fresh locals, start to end, when no layer rejects its input.
Forward(th, cfg, b) ==
    LET f1 == StepFirstPass(th, cfg, b)
        f2 == StepWarp(th, cfg, b, f1)
        b2 == SetOffsets(b, f2.delta_x)
        f3 == StepIndependent(th, cfg, b2, f2)
        f4 == StepDirectional(th, cfg, b2, f3)
        f5 == StepComposite(th, cfg, b2, f4)
    IN  FieldOutputs(StepBlend(th, cfg, b2, f5))

\* ---------------------------------------------------------------- actions

Init ==
    /\ config \in Configs
    /\ theta \in Thetas
    /\ ray_samples \in Batches
    /\ sample_locations = None
    /\ density_before_activation = None
    /\ density_ret = None
    /\ outputs_ret = None
    /\ pc = "idle"
    /\ locals = EmptyLocals
    /\ field_outputs = None
    /\ raised = ""
    /\ entry_samples = ray_samples
    /\ results = << >>

\* A caller evaluates the density alone: get_density(ray_samples).
CallGetDensity ==
    /\ pc = "idle"
    /\ LET g == GetDensity(theta, config, ray_samples)
       IN  /\ sample_locations' = g.sample_locations
           /\ density_before_activation' = g.density_before_activation
           /\ density_ret' = << g.density, g.base_mlp_out >>
    /\ raised' = ""
    /\ UNCHANGED << config, theta, ray_samples, outputs_ret, pc, locals,
                    field_outputs, entry_samples, results >>

\* A caller asks for get_outputs(ray_samples, density_embedding) with the
\* embedding get_density returned.
CallGetOutputs ==
    /\ pc = "idle"
    /\ density_ret # None
    /\ IF ray_samples.camera_indices = None
       THEN /\ raised' = "AttributeError"
            /\ outputs_ret' = None
       ELSE IF CatWidth(HOutputsParts) # HeadInDim(config)
       THEN /\ raised' = "RuntimeError"
            /\ outputs_ret' = None
       ELSE /\ raised' = ""
            /\ outputs_ret' =
                 << [r \in Rays |-> [s \in Samples |->
                      MlpHead(theta, DirectionEncoding(ray_samples.directions[r]),
                              density_ret[2][r][s])]] >>
    /\ UNCHANGED << config, theta, ray_samples, sample_locations,
                    density_before_activation, density_ret, pc, locals,
                    field_outputs, entry_samples, results >>

\* forward, lines 293-294.
ForwardFirstPass ==
    /\ pc = "idle"
    /\ Len(results) < MaxCalls
    /\ LET g == GetDensity(theta, config, ray_samples)
       IN  /\ sample_locations' = g.sample_locations
           /\ density_before_activation' = g.density_before_activation
    /\ locals' = StepFirstPass(theta, config, ray_samples)
    /\ entry_samples' = ray_samples
    /\ raised' = ""
    /\ pc' = "warp"
    /\ UNCHANGED << config, theta, ray_samples, density_ret, outputs_ret,
                    field_outputs, results >>

\* forward, lines 296-314; mlp_offset's first layer rejects an input whose
\* width is not the in_dim it was built with.
ForwardWarp ==
    /\ pc = "warp"
    /\ IF CatWidth(HOffsetParts) # OffsetInDim(config)
       THEN /\ locals' = [locals EXCEPT !.trunk_calls =
                             Append(@, TrunkCall("mlp_offset", HOffsetParts,
                                                 OffsetInDim(config)))]
            /\ raised' = "RuntimeError"
            /\ results' = Append(results, [kind |-> "raised", error |-> raised', outputs |-> None])
            /\ pc' = "idle"
            /\ UNCHANGED ray_samples
       ELSE /\ locals' = StepWarp(theta, config, ray_samples, locals)
            /\ ray_samples' = SetOffsets(ray_samples, locals'.delta_x)
            /\ pc' = "independent"
            /\ UNCHANGED << raised, results >>
    /\ UNCHANGED << config, theta, sample_locations, density_before_activation,
                    density_ret, outputs_ret, field_outputs, entry_samples >>

\* forward, lines 315-334.
ForwardIndependent ==
    /\ pc = "independent"
    /\ locals' = StepIndependent(theta, config, ray_samples, locals)
    /\ pc' = "directional"
    /\ UNCHANGED << config, theta, ray_samples, sample_locations,
                    density_before_activation, density_ret, outputs_ret,
                    field_outputs, raised, entry_samples, results >>

\* forward, lines 337-346.
ForwardDirectional ==
    /\ pc = "directional"
    /\ IF CatWidth(HVdParts) # HeadInDim(config)
       THEN /\ locals' = [locals EXCEPT !.trunk_calls =
                             Append(@, TrunkCall("mlp_head", HVdParts, HeadInDim(config)))]
            /\ raised' = "RuntimeError"
            /\ results' = Append(results, [kind |-> "raised", error |-> raised', outputs |-> None])
            /\ pc' = "idle"
       ELSE /\ locals' = StepDirectional(theta, config, ray_samples, locals)
            /\ pc' = "composite"
            /\ UNCHANGED << raised, results >>
    /\ UNCHANGED << config, theta, ray_samples, sample_locations,
                    density_before_activation, density_ret, outputs_ret,
                    field_outputs, entry_samples >>

\* forward, lines 350-361.
ForwardComposite ==
    /\ pc = "composite"
    /\ locals' = StepComposite(theta, config, ray_samples, locals)
    /\ pc' = "blend"
    /\ UNCHANGED << config, theta, ray_samples, sample_locations,
                    density_before_activation, density_ret, outputs_ret,
                    field_outputs, raised, entry_samples, results >>

\* forward, lines 364-379.
ForwardReturn ==
    /\ pc = "blend"
    /\ locals' = StepBlend(theta, config, ray_samples, locals)
    /\ field_outputs' = << FieldOutputs(locals') >>
    /\ results' = Append(results, [kind |-> "returned", error |-> "", outputs |-> field_outputs'])
    /\ pc' = "idle"
    /\ UNCHANGED << config, theta, ray_samples, sample_locations,
                    density_before_activation, density_ret, outputs_ret,
                    raised, entry_samples >>

Next ==
    \/ CallGetDensity
    \/ CallGetOutputs
    \/ ForwardFirstPass
    \/ ForwardWarp
    \/ ForwardIndependent
    \/ ForwardDirectional
    \/ ForwardComposite
    \/ ForwardReturn

Spec == Init /\ [][Next]_vars

\* ----------------------------------------------------------------- claims

\* The last forward call on ray_samples has returned; locals still holds what
\* it computed.
Returned ==
    /\ pc = "idle"
    /\ results # << >>
    /\ results[Len(results)].kind = "returned"

\* forward has just attached delta_x to the samples.
WarpDone == pc = "independent"

\* forward has composited both branches and is about to blend them.
CompositeDone == pc = "blend"

\* C1.  Determinism: with the learned parameters fixed, two calls of forward
\* in a row on the same ray samples return the same outputs (SH, DENSITY,
\* RGB, VI_RGB, VD_RGB).
C1_Determinism ==
    \A i \in 1..(Len(results) - 1) :
        (results[i].kind = "returned" /\ results[i + 1].kind = "returned")
            => results[i + 1].outputs = results[i].outputs

\* C2.  Purity: after forward returns, every sample of the caller's batch
\* reports the position, direction and interval it reported before the call,
\* and nothing the call computed (the cumulative offset) stays attached to the
\* batch where a later get_density or forward reads it.
C2_BatchUntouched ==
    Returned =>
        /\ GetPositions(ray_samples) = GetPositions(entry_samples)
        /\ ray_samples.directions = entry_samples.directions
        /\ ray_samples.deltas = entry_samples.deltas
        /\ ray_samples.offsets = entry_samples.offsets

\* The values a raw offset or a geometry feature is perturbed to.
Perturbations == {-3, -1, 0, 2}

\* The offset tensors that differ from the computed one by a perturbation of
\* the raw offset, or of the geometry feature, at sample k of ray r.
PerturbedOffsets(r, k) ==
    { p \in { [locals.offset EXCEPT ![r][k] = v] : v \in Perturbations }
            \cup { [locals.offset EXCEPT ![r][k] =
                       MlpOffset(theta, DirectionEncoding(ray_samples.directions[r]), g)] :
                   g \in Perturbations } :
      TRUE }

\* C3 as stated.  Causal warp: perturbing the raw offset or the geometry
\* feature at sample k leaves the cumulative offset unchanged at every index
\* below k and changes it at every index from k on.
C3_CausalWarpAsStated ==
    WarpDone =>
        \A r \in Rays : \A k \in Samples : \A p \in PerturbedOffsets(r, k) :
            p # locals.offset =>
                LET c == DeltaX(locals.weight, p)
                IN  \A i \in Samples :
                        /\ i < k => c[r][i] = locals.delta_x[r][i]
                        /\ i >= k => c[r][i] # locals.delta_x[r][i]

\* C3 as amended.  Causal warp: perturbing the raw offset or the geometry
\* feature at sample k leaves the cumulative offset unchanged at every index
\* below k (and on every other ray), and shifts it at every index from k on by
\* the first-pass weight at k times the change of the raw offset at k.
C3_CausalWarp ==
    WarpDone =>
        \A r \in Rays : \A k \in Samples : \A p \in PerturbedOffsets(r, k) :
            LET c == DeltaX(locals.weight, p)
            IN  /\ \A i \in Samples :
                        /\ i < k => c[r][i] = locals.delta_x[r][i]
                        /\ i >= k => c[r][i] - locals.delta_x[r][i]
                                       = locals.weight[r][k] * (p[r][k] - locals.offset[r][k])
                /\ \A q \in Rays \ {r} : c[q] = locals.delta_x[q]

\* A perturbation at an inner sample with a positive weight reaches the end
\* of the ray, while one at a sample with weight zero changes nothing.
C3_Witness ==
    /\ WarpDone
    /\ \E r \in Rays : \E k \in Samples \ {1} : \E p \in PerturbedOffsets(r, k) :
           /\ locals.weight[r][k] > 0
           /\ DeltaX(locals.weight, p)[r][NumSamples] # locals.delta_x[r][NumSamples]
           /\ DeltaX(locals.weight, p)[r][k - 1] = locals.delta_x[r][k - 1]
    /\ \E r \in Rays : \E k \in Samples : \E p \in PerturbedOffsets(r, k) :
           /\ p # locals.offset
           /\ locals.weight[r][k] = 0

\* Rays lo..hi of a batch, as a batch of their own.
SubBatch(b, lo, hi) ==
    [origins |-> SubSeq(b.origins, lo, hi),
     directions |-> SubSeq(b.directions, lo, hi),
     starts |-> SubSeq(b.starts, lo, hi),
     ends |-> SubSeq(b.ends, lo, hi),
     deltas |-> SubSeq(b.deltas, lo, hi),
     camera_indices |-> b.camera_indices,
     offsets |-> IF b.offsets = None THEN None ELSE SubSeq(b.offsets, lo, hi)]

SubOutputs(out, lo, hi) ==
    [SH |-> SubSeq(out.SH, lo, hi), DENSITY |-> SubSeq(out.DENSITY, lo, hi),
     RGB |-> SubSeq(out.RGB, lo, hi), VI_RGB |-> SubSeq(out.VI_RGB, lo, hi),
     VD_RGB |-> SubSeq(out.VD_RGB, lo, hi)]

\* C4.  Ray independence: for every split of the batch into rays 1..m and
\* m+1..NumRays, what forward returned for the whole batch is, ray by ray,
\* what forward returns for each part evaluated alone.
C4_RayIndependence ==
    Returned =>
        \A m \in 1..(NumRays - 1) :
            /\ SubOutputs(field_outputs[1], 1, m)
                 = Forward(theta, config, SubBatch(entry_samples, 1, m))
            /\ SubOutputs(field_outputs[1], m + 1, NumRays)
                 = Forward(theta, config, SubBatch(entry_samples, m + 1, NumRays))

\* A returned batch whose first ray was warped and whose rays got different
\* outputs.
C4_Witness ==
    /\ Returned
    /\ \E s \in Samples : field_outputs[1].SH[1][s] # 0
    /\ field_outputs[1].SH[1] # field_outputs[1].SH[NumRays]
    /\ field_outputs[1].RGB[1] # field_outputs[1].RGB[NumRays]

\* C5.  Integrator usage: weight_vi is the integrator's result for
\* (density_vi, deltas) alone and weight_vd its result for (density_vd,
\* deltas) alone; color_vi is composited with weight_vi only and the
\* view-dependent feature with weight_vd only.
C5_IntegratorIndependence ==
    CompositeDone =>
        /\ locals.weight_vi = GetWeights(locals.density_vi, ray_samples.deltas)
        /\ locals.weight_vd = GetWeights(locals.density_vd, ray_samples.deltas)
        /\ locals.rgb_vi = RgbVi(locals.weight_vi, locals.color_vi)
        /\ locals.feature_map = FeatureMap(locals.weight_vd, locals.color_vd)

\* The three densities differ from each other, and so do the weights.
C5_Witness ==
    /\ CompositeDone
    /\ locals.density_vi # locals.density_vd
    /\ locals.density # locals.density_vd
    /\ locals.density # locals.density_vi
    /\ locals.weight_vi # locals.weight_vd
    /\ locals.weight_vd # GetWeights(locals.density, ray_samples.deltas)
    /\ locals.weight_vd # GetWeightsFused(locals.density, locals.density_vd, ray_samples.deltas)

\* The last forward call on ray_samples, if any, ended with this exception.
LastRaised(error) ==
    /\ results # << >>
    /\ results[Len(results)].kind = "raised"
    /\ results[Len(results)].error = error

\* C6.  Missing image index: with appearance embedding enabled and no camera
\* indices on the batch, forward ends with the configuration error
\* (AttributeError: camera indices are not provided), raised before any trunk
\* has run, and returns nothing.
C6_ConfigurationError ==
    (config.appearance_embedding_dim > 0 /\ ray_samples.camera_indices = None) =>
        /\ locals.trunk_calls = << >>
        /\ results # << >> => LastRaised("AttributeError")

\* The integrator's contract: weights in [0, 1] that sum to at most 1 on
\* every ray.
IntegratorContract(w) ==
    \A r \in DOMAIN w :
        /\ \A s \in DOMAIN w[r] : w[r][s] \in 0..SCALE
        /\ SumTo(w[r], Len(w[r])) <= SCALE

\* C7.  Colour range: when the integrator's weights meet its contract, every
\* channel of the composited rgb_vi and of the decoded rgb_vd lies in [0, 1].
C7_ColorRange ==
    (/\ CompositeDone
     /\ IntegratorContract(locals.weight_vi)
     /\ IntegratorContract(locals.weight_vd)) =>
        \A r \in Rays : \A c \in Channels :
            /\ locals.rgb_vi[r][c] \in 0..(SCALE * SCALE)
            /\ locals.rgb_vd[r][c] \in 0..SCALE

\* Both colours are composited from weights that meet the contract and are
\* not black.
C7_Witness ==
    /\ CompositeDone
    /\ IntegratorContract(locals.weight_vi)
    /\ IntegratorContract(locals.weight_vd)
    /\ \E r \in Rays : \E c \in Channels : locals.rgb_vi[r][c] > 0
    /\ \E r \in Rays : \E c \in Channels : locals.rgb_vd[r][c] > 0

\* The blocks the appearance embedding adds to a trunk's input.
AppearanceParts(cfg) ==
    IF cfg.appearance_embedding_dim > 0 THEN << "embedded_appearance" >> ELSE << >>

\* C8.  Trunk input wiring: mlp_offset receives d, density_embedding and,
\* when appearance embedding is enabled, the appearance vector; mlp_head
\* receives d, base_mlp_out and the appearance vector likewise; so every
\* trunk receives an input as wide as the in_dim it was built with.
C8_TrunkWiring ==
    \A i \in DOMAIN locals.trunk_calls :
        LET t == locals.trunk_calls[i]
        IN  /\ t.trunk = "mlp_offset" =>
                   t.parts = << "d", "density_embedding" >> \o AppearanceParts(config)
            /\ t.trunk = "mlp_head" =>
                   t.parts = << "d", "base_mlp_out" >> \o AppearanceParts(config)
            /\ t.width = t.in_dim

\* C9.  One normalization strategy: both passes of one forward call normalize
\* positions by the same strategy, the spatial distortion when one is
\* configured and the scene box otherwise.
C9_SingleNormalization ==
    \A i \in DOMAIN locals.norm_log : locals.norm_log[i] = DensityStrategy(config)

\* C10.  Warp arithmetic: delta_x at sample i is the sum over the samples
\* 1..i of the same ray of weight * offset, weight being the integrator's
\* result for the first-pass density; it is zero as long as the first-pass
\* density is zero; and the position the second pass reads is the position
\* the sample reported before the call plus delta_x.
C10_WarpArithmetic ==
    WarpDone =>
        LET weight0 == GetWeights(locals.density, ray_samples.deltas)
        IN  \A r \in Rays : \A i \in Samples :
                /\ locals.delta_x[r][i]
                     = SumTo([j \in Samples |-> weight0[r][j] * locals.offset[r][j]], i)
                /\ (\A j \in 1..i : locals.density[r][j] = 0) => locals.delta_x[r][i] = 0
                /\ GetPositions(ray_samples)[r][i]
                     = GetPositions(entry_samples)[r][i] + locals.delta_x[r][i]

====
